---- MODULE Spec2Model ----
(***************************************************************************)
(* Model of src/src/generics.ts: the generic helper ranker(items, rank),   *)
(* a decorate / sort / undecorate routine, together with the two demo      *)
(* calls of the file.                                                      *)
(*                                                                         *)
(* Arrays the caller can see live in `heap` and are named by a reference   *)
(* (their index in the heap), so that aliasing and mutation of the input   *)
(* are observable.  The rank callback is caller code: one invocation of it *)
(* is one step of the model, and it either returns a number (an IEEE-754   *)
(* double: finite, +Infinity, -Infinity or NaN) or throws.                 *)
(* Array.prototype.sort is the engine's; its result for a comparator that  *)
(* is not consistent is implementation-defined, so the engine's algorithm  *)
(* is chosen once, in Init, among the algorithms engines use for short     *)
(* arrays.                                                                 *)
(***************************************************************************)
EXTENDS Integers, Sequences, FiniteSets, TLC

VARIABLES
    engine,   \* the sort algorithm of the JavaScript engine running the file
    pc,       \* position of the current call of ranker
    heap,     \* the arrays visible to the caller, by reference
    items,    \* parameter items: reference of the input array
    rank,     \* parameter rank: the callback, item -> outcome
    k,        \* index of the next element visited by items.map
    ranks,    \* the local array ranks of Rank<RankItem> entries
    result,   \* reference of the returned array, NoRef while there is none
    error,    \* the exception that left ranker, NoError while there is none
    calls,    \* history: the invocations of rank made by the current call
    items0,   \* history: the contents of the input array when ranker was called
    seen,     \* history: one earlier completed call, as <<input, rank, output>>
    frames,   \* two calls of ranker in progress at once: the frame of each
    store,    \* the binding ranks of each of the two calls
    plucked,  \* the current call of pluck
    employee, \* the Employee object and the last assignment to its fullName
    padded,   \* the last call of padLeft
    built,    \* the last call of buildName
    picked,   \* the last call of pickCard
    logged,   \* the last call of logger
    greeter,  \* the class Greeter, its instances and the last call of greet
    cells,    \* the cells created by simpleState and the last call on them
    arena     \* the console and the last call of fight

\* The state of a single call of ranker and of its caller
single == <<engine, pc, heap, items, rank, k, ranks, result, error, calls, items0, seen>>

\* The state of two overlapping calls of ranker
overlap == <<frames, store>>

\* The state of the other functions and classes of the repository
classes == <<greeter, cells, arena>>

examples == <<plucked, employee, padded, built, picked, logged, classes>>

\* The state that a single call of ranker leaves alone
others == <<overlap, examples>>

\* The state that each of the other functions and classes leaves alone
besidesPluck == <<single, overlap, employee, padded, built, picked, logged, classes>>

besidesEmployee == <<single, overlap, plucked, padded, built, picked, logged, classes>>

besidesPadLeft == <<single, overlap, plucked, employee, built, picked, logged, classes>>

besidesBuildName == <<single, overlap, plucked, employee, padded, picked, logged, classes>>

besidesPickCard == <<single, overlap, plucked, employee, padded, built, logged, classes>>

besidesLogger == <<single, overlap, plucked, employee, padded, built, picked, classes>>

besidesGreeter ==
    <<single, overlap, plucked, employee, padded, built, picked, logged, cells, arena>>

besidesSimpleState ==
    <<single, overlap, plucked, employee, padded, built, picked, logged, greeter, arena>>

besidesFighters ==
    <<single, overlap, plucked, employee, padded, built, picked, logged, greeter, cells>>

vars == <<single, others>>

----------------------------------------------------------------------------
(* Bounds of the model *)

MaxLen == 3

Items == {"a", "b", "c"}

MaxRank == 3

Engines == {"insertion", "timsort", "merge"}

\* Longer arrays, for the calls whose rank function ties two items
TiedLen == 7

TiedItems == {"a", "b", "c", "n"}

\* Short arrays over two items, for sequences of calls
PairLen == 2

\* Arrays for the calls followed from entry to return under fairness
LiveLen == 2

PairItems == {"a", "b"}

----------------------------------------------------------------------------
(* JavaScript numbers, as far as ranker uses them *)

Fin(n) == [kind |-> "fin", v |-> n]

PosInf == [kind |-> "inf", v |-> 1]

NegInf == [kind |-> "inf", v |-> -1]

NaN == [kind |-> "nan", v |-> 0]

Throws == [kind |-> "throw", v |-> 0]

Numbers == {Fin(n) : n \in 1..MaxRank} \cup {PosInf, NegInf, NaN}

Outcomes == Numbers \cup {Throws}

IsNaN(x) == x.kind = "nan"

\* x - y on doubles
Minus(x, y) ==
    CASE IsNaN(x) \/ IsNaN(y) -> NaN
      [] x.kind = "inf" /\ y.kind = "inf" -> IF x.v = y.v THEN NaN ELSE x
      [] x.kind = "inf" /\ y.kind = "fin" -> x
      [] x.kind = "fin" /\ y.kind = "inf" -> [kind |-> "inf", v |-> -y.v]
      [] OTHER -> Fin(x.v - y.v)

\* x <= y on doubles: false when either is NaN
NumLeq(x, y) ==
    CASE IsNaN(x) \/ IsNaN(y) -> FALSE
      [] x.kind = "inf" /\ y.kind = "inf" -> x.v <= y.v
      [] x.kind = "inf" /\ y.kind = "fin" -> x.v < 0
      [] x.kind = "fin" /\ y.kind = "inf" -> y.v > 0
      [] OTHER -> x.v <= y.v

\* x === y on doubles: false when either is NaN
NumEq(x, y) == NumLeq(x, y) /\ NumLeq(y, x)

----------------------------------------------------------------------------
(* Array.prototype.sort with the comparator of ranker *)

\* Variant: the comparator returns a boolean, (a, b) => a.rank > b.rank
ComparatorBoolean(a, b) ==
    IF NumLeq(a.rank, b.rank) \/ IsNaN(a.rank) \/ IsNaN(b.rank) THEN Fin(0) ELSE Fin(1)

\* Variant: the comparator never reports a tie, a.rank < b.rank ? -1 : 1
ComparatorNoTie(a, b) ==
    IF NumLeq(a.rank, b.rank) /\ ~NumLeq(b.rank, a.rank) THEN Fin(-1) ELSE Fin(1)

\* Variant: the operands are swapped, b.rank - a.rank
ComparatorDescending(a, b) == Minus(b.rank, a.rank)

\* (a, b) => a.rank - b.rank
Comparator(a, b) == Minus(a.rank, b.rank)

\* SortCompare of ECMAScript: the comparator's value, NaN read as +0; only
\* its sign matters to a sort
SortCompare(a, b) ==
    LET v == Comparator(a, b)
    IN  CASE v.kind = "nan" -> 0
          [] v.kind = "inf" -> v.v
          [] OTHER -> IF v.v < 0 THEN -1 ELSE IF v.v > 0 THEN 1 ELSE 0

Front(s) == SubSeq(s, 1, Len(s) - 1)

Last(s) == s[Len(s)]

\* Straight insertion: x moves left past every entry that compares greater
RECURSIVE LinearInsert(_, _)
LinearInsert(sorted, x) ==
    IF sorted = <<>> THEN <<x>>
    ELSE IF SortCompare(Last(sorted), x) > 0
         THEN Append(LinearInsert(Front(sorted), x), Last(sorted))
         ELSE Append(sorted, x)

RECURSIVE InsertionSort(_)
InsertionSort(rs) ==
    IF rs = <<>> THEN <<>> ELSE LinearInsert(InsertionSort(Front(rs)), Last(rs))

\* Binary insertion: the position of x in sorted[left+1 .. right] is found
\* by bisection
RECURSIVE BinarySearch(_, _, _, _)
BinarySearch(sorted, x, left, right) ==
    IF left >= right THEN left
    ELSE LET mid == left + ((right - left) \div 2)
         IN  IF SortCompare(x, sorted[mid + 1]) < 0
             THEN BinarySearch(sorted, x, left, mid)
             ELSE BinarySearch(sorted, x, mid + 1, right)

BinaryInsert(sorted, x) ==
    LET at == BinarySearch(sorted, x, 0, Len(sorted))
    IN  SubSeq(sorted, 1, at) \o <<x>> \o SubSeq(sorted, at + 1, Len(sorted))

\* The entries rest[1..] are inserted, one after the other, into sorted
RECURSIVE BinaryInsertAll(_, _)
BinaryInsertAll(sorted, rest) ==
    IF rest = <<>> THEN sorted
    ELSE BinaryInsertAll(BinaryInsert(sorted, rest[1]), Tail(rest))

Reverse(s) == [i \in 1..Len(s) |-> s[Len(s) + 1 - i]]

\* The length of the run rs starts with: its first n entries, n >= 2, are
\* known to be a run, strictly descending or not
RECURSIVE RunLength(_, _, _)
RunLength(rs, n, descending) ==
    IF n >= Len(rs) THEN n
    ELSE LET order == SortCompare(rs[n + 1], rs[n])
         IN  IF (descending /\ order >= 0) \/ (~descending /\ order < 0)
             THEN n
             ELSE RunLength(rs, n + 1, descending)

\* TimSort on an array shorter than its minimal run length: the leading
\* run is found (and reversed when strictly descending), the other entries
\* are placed by binary insertion
TimSort(rs) ==
    IF Len(rs) < 2 THEN rs
    ELSE LET descending == SortCompare(rs[2], rs[1]) < 0
             n == RunLength(rs, 2, descending)
             run == IF descending THEN Reverse(SubSeq(rs, 1, n)) ELSE SubSeq(rs, 1, n)
         IN  BinaryInsertAll(run, SubSeq(rs, n + 1, Len(rs)))

\* Top-down merge sort: on a tie the entry of the left half goes first
RECURSIVE Merge(_, _)
Merge(l, r) ==
    IF l = <<>> THEN r
    ELSE IF r = <<>> THEN l
    ELSE IF SortCompare(r[1], l[1]) < 0
         THEN <<r[1]>> \o Merge(l, Tail(r))
         ELSE <<l[1]>> \o Merge(Tail(l), r)

RECURSIVE MergeSort(_)
MergeSort(rs) ==
    IF Len(rs) <= 1 THEN rs
    ELSE LET mid == Len(rs) \div 2
         IN  Merge(MergeSort(SubSeq(rs, 1, mid)), MergeSort(SubSeq(rs, mid + 1, Len(rs))))

\* ranks.sort(comparator), as the engine `e` computes it
Sorted(e, rs) ==
    CASE e = "insertion" -> InsertionSort(rs)
      [] e = "timsort" -> TimSort(rs)
      [] OTHER -> MergeSort(rs)

----------------------------------------------------------------------------
(* ranker *)

NoRef == 0

NoError == [thrown |-> FALSE, by |-> "none"]

NoCall == <<>>

Undefined == "undefined"

\* Variant: the elements are visited from the end of the array
GetFromEnd(arr, i) == IF i + 1 \in DOMAIN arr THEN arr[Len(arr) - i] ELSE Undefined

\* arr[i], i counted from 0 as in JavaScript; undefined outside the array
Get(arr, i) == IF i + 1 \in DOMAIN arr THEN arr[i + 1] ELSE Undefined

\* rank(item): the callback's outcome; a callback handed a value it is not
\* defined on throws
Invoke(f, item) == IF item \in DOMAIN f THEN f[item] ELSE Throws

\* The exception rank throws for `item`
ErrorOf(item) == [thrown |-> TRUE, by |-> item]

\* Variant: ranks is a binding of the module, and the entries an earlier
\* call pushed are still in it
StaleRanks(left) == left

\* const ranks = ...: a binding local to the call; nothing an earlier call
\* left behind is visible through it
FreshRanks(left) == <<>>

\* Variant: the loop bound is off by one
MapDoneOffByOne(i, len) == i > len

\* items.map visits the indexes 0 .. length-1
MapDone(i, len) == i >= len

\* Variant: a throwing rank is caught and the item gets the rank NaN
DecorateItemCatching(acc, item, outcome) ==
    [pc |-> "decorate",
     ranks |-> Append(acc, [rank |-> IF outcome.kind = "throw" THEN NaN ELSE outcome,
                            item |-> item]),
     error |-> NoError]

\* Variant: a rank of NaN is rejected with an exception
DecorateItemRejectingNaN(acc, item, outcome) ==
    IF outcome.kind \in {"throw", "nan"}
    THEN [pc |-> "thrown", ranks |-> acc, error |-> ErrorOf(item)]
    ELSE [pc |-> "decorate",
          ranks |-> Append(acc, [rank |-> outcome, item |-> item]),
          error |-> NoError]

\* One step of items.map((item) => ({item, rank: rank(item)})): the entry
\* is appended when rank returns; when rank throws nothing catches it
DecorateItem(acc, item, outcome) ==
    IF outcome.kind = "throw"
    THEN [pc |-> "thrown", ranks |-> acc, error |-> ErrorOf(item)]
    ELSE [pc |-> "decorate",
          ranks |-> Append(acc, [rank |-> outcome, item |-> item]),
          error |-> NoError]

\* The invocations of rank made while decorating one element: rank(item)
InvokedOn(item) == <<item>>

\* Variant: the comparator calls rank on the entries it compares
InvokedByComparator(rs) ==
    IF Len(rs) < 2 THEN << >> ELSE [i \in 1..Len(rs) |-> rs[i].item]

\* The invocations of rank made by ranks.sort: the comparator reads the
\* rank stored in each entry
InvokedBySort(rs) == << >>

\* Variant: every entry yields the item of the first entry
UndecoratedFirst(rs) == [i \in 1..Len(rs) |-> rs[1].item]

\* ranks.map((rank) => rank.item)
Undecorated(rs) == [i \in 1..Len(rs) |-> rs[i].item]

\* Variant: the items are written back into the input array
AliasRef(h, in, out) == in

\* Variant: an input that is already in order is returned as it is
AliasWhenInOrder(h, in, out) == IF h[in] = out THEN in ELSE Len(h) + 1

\* The reference of the array ranks.map returns: always a new array
ResultRef(h, in, out) == Len(h) + 1

\* The heap after the array `arr` was stored at reference `ref`
Store(h, ref, arr) ==
    IF ref \in DOMAIN h THEN [h EXCEPT ![ref] = arr] ELSE Append(h, arr)

\* ranker is entered with the array s and the callback f
Enter(s, f) ==
    /\ pc' = "decorate"
    /\ heap' = <<s>>
    /\ items' = 1
    /\ rank' = f
    /\ k' = 0
    /\ ranks' = FreshRanks(ranks)
    /\ result' = NoRef
    /\ error' = NoError
    /\ calls' = <<>>
    /\ items0' = s

Arrays(S, n) == UNION {[1..m -> S] : m \in 0..n}

RankFunctions == [Items -> Outcomes]

\* ranker(items, rank) called with any array and any callback
Call ==
    /\ pc = "idle"
    /\ \E s \in Arrays(Items, MaxLen), f \in RankFunctions : Enter(s, f)
    /\ UNCHANGED <<engine, seen>>
    /\ UNCHANGED others

\* A callback that ranks a and b 1, c 2 and n NaN
TiedRank ==
    [x \in TiedItems |-> IF x = "n" THEN NaN ELSE IF x = "c" THEN Fin(2) ELSE Fin(1)]

\* ranker(items, rank) called with a longer array and a callback under
\* which two items tie
CallTied ==
    /\ pc = "idle"
    /\ \E s \in Arrays(TiedItems, TiedLen) : Enter(s, TiedRank)
    /\ UNCHANGED <<engine, seen>>
    /\ UNCHANGED others

\* The data of the file: the objects are named by their name field
pokemon == <<"Bulbasaur", "Megaasaur">>

Hp == [p \in {"Bulbasaur", "Megaasaur"} |-> IF p = "Bulbasaur" THEN 20 ELSE 5]

human == <<"Duy", "TA">>

Age == [h \in {"Duy", "TA"} |-> IF h = "Duy" THEN 25 ELSE 50]

\* ({ hp }) => hp
RankByHp == [p \in DOMAIN Hp |-> Fin(Hp[p])]

\* ({ age }) => age
RankByAge == [h \in DOMAIN Age |-> Fin(Age[h])]

\* line 72: const ranks = ranker(pokemon, ({ hp }) => hp)
CallPokemon ==
    /\ pc = "idle"
    /\ Enter(pokemon, RankByHp)
    /\ UNCHANGED <<engine, seen>>
    /\ UNCHANGED others

\* line 74: const ranksHuman = ranker(human, ({ age }) => age)
CallHuman ==
    /\ pc = "idle"
    /\ Enter(human, RankByAge)
    /\ UNCHANGED <<engine, seen>>
    /\ UNCHANGED others

\* line 30-33: the next element is decorated with its rank
Decorate ==
    /\ pc = "decorate"
    /\ ~MapDone(k, Len(heap[items]))
    /\ LET item == Get(heap[items], k)
           step == DecorateItem(ranks, item, Invoke(rank, item))
       IN  /\ pc' = step.pc
           /\ ranks' = step.ranks
           /\ error' = step.error
           /\ calls' = calls \o InvokedOn(item)
    /\ k' = k + 1
    /\ UNCHANGED <<engine, heap, items, rank, result, items0, seen>>
    /\ UNCHANGED others

\* line 35: ranks.sort(...), in place on the local array
Sort ==
    /\ pc = "decorate"
    /\ MapDone(k, Len(heap[items]))
    /\ pc' = "undecorate"
    /\ ranks' = Sorted(engine, ranks)
    /\ calls' = calls \o InvokedBySort(ranks)
    /\ UNCHANGED <<engine, heap, items, rank, k, result, error, items0, seen>>
    /\ UNCHANGED others

\* line 37: return ranks.map(...)
Undecorate ==
    /\ pc = "undecorate"
    /\ LET out == Undecorated(ranks)
           ref == ResultRef(heap, items, out)
       IN  /\ heap' = Store(heap, ref, out)
           /\ result' = ref
    /\ pc' = "returned"
    /\ UNCHANGED <<engine, items, rank, k, ranks, error, calls, items0, seen>>
    /\ UNCHANGED others

\* The caller changes the array at reference ref: it adds an element at the
\* end, removes the last element, or replaces an element
Mutate(ref) ==
    \E x \in Items :
        \/ heap' = [heap EXCEPT ![ref] = Append(@, x)]
        \/ /\ heap[ref] # <<>>
           /\ heap' = [heap EXCEPT ![ref] = Front(@)]
        \/ \E i \in DOMAIN heap[ref] :
               /\ heap[ref][i] # x
               /\ heap' = [heap EXCEPT ![ref] = [@ EXCEPT ![i] = x]]

\* After the call, the caller changes the array it was returned
MutateResult ==
    /\ pc = "returned"
    /\ Mutate(result)
    /\ pc' = "mutatedResult"
    /\ UNCHANGED <<engine, items, rank, k, ranks, result, error, calls, items0, seen>>
    /\ UNCHANGED others

\* After the call, the caller changes the array it passed
MutateInput ==
    /\ pc = "returned"
    /\ Mutate(items)
    /\ pc' = "mutatedInput"
    /\ UNCHANGED <<engine, items, rank, k, ranks, result, error, calls, items0, seen>>
    /\ UNCHANGED others

\* ranker(items, rank) called with any array and a callback of finite ranks
CallFinite ==
    /\ pc = "idle"
    /\ \E s \in Arrays(Items, MaxLen), f \in [Items -> {Fin(1), Fin(2)}] : Enter(s, f)
    /\ UNCHANGED <<engine, seen>>
    /\ UNCHANGED others

\* ranker(items, rank) called with any array and a callback that returns
\* for every item: a finite rank, Infinity or NaN
CallTotal ==
    /\ pc = "idle"
    /\ \E s \in Arrays(Items, LiveLen), f \in [Items -> {Fin(1), PosInf, NaN}] : Enter(s, f)
    /\ UNCHANGED <<engine, seen>>
    /\ UNCHANGED others

\* ranker(items, rank) called again, by a caller that made calls before
CallAgain ==
    /\ pc \in {"idle", "returned", "thrown"}
    /\ \E s \in Arrays(PairItems, PairLen), f \in [PairItems -> {Fin(1), Fin(2), NaN}] :
           Enter(s, f)
    /\ UNCHANGED <<engine, seen>>
    /\ UNCHANGED others

\* The caller keeps the arguments and the result of a call that returned
Remember ==
    /\ pc = "returned"
    /\ seen = NoCall
    /\ seen' = <<items0, rank, heap[result]>>
    /\ UNCHANGED <<engine, pc, heap, items, rank, k, ranks, result, error, calls, items0>>
    /\ UNCHANGED others

\* The caller is done with the call: its frame and arrays are gone
Reset ==
    /\ pc \in {"returned", "thrown", "mutatedResult", "mutatedInput"}
    /\ pc' = "idle"
    /\ heap' = <<>>
    /\ items' = NoRef
    /\ rank' = <<>>
    /\ k' = 0
    /\ ranks' = <<>>
    /\ result' = NoRef
    /\ error' = NoError
    /\ calls' = <<>>
    /\ items0' = <<>>
    /\ UNCHANGED <<engine, seen>>
    /\ UNCHANGED others

----------------------------------------------------------------------------
(* Two calls of ranker in progress at once: the second is started while the
   first is between two invocations of rank (from inside its callback), or
   the two are interleaved in any other way *)

Frames == {1, 2}

Other(i) == 3 - i

IdleFrame ==
    [pc |-> "idle", items |-> <<>>, rank |-> <<>>, k |-> 0, error |-> NoError,
     out |-> <<>>, startedIn |-> "idle"]

\* Variant: ranks is a binding of the module, shared by all calls
SharedSlot(i) == 1

\* const ranks: each call has its own binding
Slot(i) == i

\* items.map((item) => ({item, rank: rank(item)})), all of it
Decorated(s, f) == [i \in 1..Len(s) |-> [rank |-> f[s[i]], item |-> s[i]]]

\* ranker(s, f) run on its own, from call to return, on the engine e
Ranker(e, s, f) == Undecorated(Sorted(e, Decorated(s, f)))

\* Call i of ranker is entered
Start(i) ==
    /\ frames[i].pc = "idle"
    /\ \E s \in Arrays(PairItems, PairLen), f \in [PairItems -> {Fin(1), Fin(2)}] :
           frames' = [frames EXCEPT ![i] =
                         [pc |-> "decorate", items |-> s, rank |-> f, k |-> 0,
                          error |-> NoError, out |-> <<>>,
                          startedIn |-> frames[Other(i)].pc]]
    /\ store' = [store EXCEPT ![Slot(i)] = <<>>]
    /\ UNCHANGED <<single, examples>>

\* Call i decorates its next element
DecorateIn(i) ==
    /\ frames[i].pc = "decorate"
    /\ ~MapDone(frames[i].k, Len(frames[i].items))
    /\ LET item == Get(frames[i].items, frames[i].k)
           step == DecorateItem(store[Slot(i)], item, Invoke(frames[i].rank, item))
       IN  /\ frames' = [frames EXCEPT ![i].pc = step.pc,
                                       ![i].error = step.error,
                                       ![i].k = @ + 1]
           /\ store' = [store EXCEPT ![Slot(i)] = step.ranks]
    /\ UNCHANGED <<single, examples>>

\* Call i sorts its ranks
SortIn(i) ==
    /\ frames[i].pc = "decorate"
    /\ MapDone(frames[i].k, Len(frames[i].items))
    /\ frames' = [frames EXCEPT ![i].pc = "undecorate"]
    /\ store' = [store EXCEPT ![Slot(i)] = Sorted(engine, @)]
    /\ UNCHANGED <<single, examples>>

\* Call i returns
ReturnIn(i) ==
    /\ frames[i].pc = "undecorate"
    /\ frames' = [frames EXCEPT ![i].pc = "returned",
                                ![i].out = Undecorated(store[Slot(i)])]
    /\ UNCHANGED <<single, store, examples>>

StartAny == \E i \in Frames : Start(i)

DecorateAny == \E i \in Frames : DecorateIn(i)

SortAny == \E i \in Frames : SortIn(i)

ReturnAny == \E i \in Frames : ReturnIn(i)

----------------------------------------------------------------------------
(* JavaScript values other than the ranks: strings and undefined *)

Str(s) == [kind |-> "string", s |-> s]

UndefinedValue == [kind |-> "undefined"]

----------------------------------------------------------------------------
(* pluck(items, key) of abstract.ts *)

MaxPluckLen == 3

Mimi == [name |-> Str("Mimi"), age |-> Fin(12), title |-> Str("sdad")]

LG == [name |-> Str("LG"), age |-> Fin(13)]

dogs == <<Mimi, LG>>

Yellow == [color |-> Str("yellow")]

cat1 == <<Yellow>>

PluckItems == {Mimi, LG, Yellow}

PluckKeys == {"name", "age", "title", "color"}

\* item[key]: the value of the property, undefined when the item has none
Prop(item, key) == IF key \in DOMAIN item THEN item[key] ELSE UndefinedValue

\* Variant: the values are collected last item first
RECURSIVE pluckReversed(_, _)
pluckReversed(s, key) ==
    IF s = <<>> THEN <<>>
    ELSE Append(pluckReversed(Tail(s), key), Prop(Head(s), key))

\* Variant: an item without the property is skipped
RECURSIVE pluckDefined(_, _)
pluckDefined(s, key) ==
    IF s = <<>> THEN <<>>
    ELSE IF key \in DOMAIN Head(s)
    THEN <<Prop(Head(s), key)>> \o pluckDefined(Tail(s), key)
    ELSE pluckDefined(Tail(s), key)

\* items.map((item) => item[key])
RECURSIVE pluck(_, _)
pluck(s, key) ==
    IF s = <<>> THEN <<>>
    ELSE <<Prop(Head(s), key)>> \o pluck(Tail(s), key)

NoPluck ==
    [pc |-> "idle", items |-> <<>>, items0 |-> <<>>, out |-> <<>>, key |-> ""]

\* One call of pluck, from entry to return: items is the caller's array after
\* the call, items0 its contents at the call
Plucking(s, key) ==
    /\ plucked' = [pc |-> "returned", items |-> s, items0 |-> s,
                   out |-> pluck(s, key), key |-> key]
    /\ UNCHANGED besidesPluck

CallPluck == \E s \in Arrays(PluckItems, MaxPluckLen), key \in PluckKeys : Plucking(s, key)

PluckDogsTitle == Plucking(dogs, "title")

PluckDogsName == Plucking(dogs, "name")

PluckCatColor == Plucking(cat1, "color")

----------------------------------------------------------------------------
(* class Employee with the accessors of fullName (docs) *)

fullNameMaxLength == 10

MaxNameLen == 12

\* The string of n characters c
RECURSIVE Repeat(_, _)
Repeat(c, n) == IF n = 0 THEN "" ELSE Repeat(c, n - 1) \o c

Names == {Repeat("x", n) : n \in 0..MaxNameLen} \cup
         {Repeat("y", n) : n \in 0..MaxNameLen} \cup {"Bob Smith"}

\* ToBoolean of a string or undefined
Truthy(v) == v.kind = "string" /\ v.s # ""

NoAssignment == [kind |-> "none"]

\* let employee = new Employee(): _fullName is not initialised
NewEmployee ==
    [thrown |-> FALSE, fullName |-> UndefinedValue, assigned |-> NoAssignment,
     before |-> UndefinedValue]

\* Variant: the limit itself is refused
TooLongFromLimit(newName) == Truthy(newName) /\ Len(newName.s) >= fullNameMaxLength

\* newName && newName.length > fullNameMaxLength
TooLong(newName) == Truthy(newName) /\ Len(newName.s) > fullNameMaxLength

\* set fullName(newName): throws, or writes this._fullName
SetFullName(e, newName) ==
    IF TooLong(newName)
    THEN [thrown |-> TRUE, fullName |-> e.fullName, assigned |-> newName,
          before |-> e.fullName]
    ELSE [thrown |-> FALSE, fullName |-> newName, assigned |-> newName,
          before |-> e.fullName]

\* get fullName()
GetFullName(e) == e.fullName

\* employee.fullName = newName
Assign(newName) ==
    /\ employee' = SetFullName(employee, newName)
    /\ UNCHANGED besidesEmployee

AssignAny == \E n \in Names : Assign(Str(n))

\* employee.fullName = "Bob Smith"
AssignBobSmith == Assign(Str("Bob Smith"))

----------------------------------------------------------------------------
(* padLeft(value, padding) with padding: any (docs) *)

MaxPad == 4

Bool(b) == [kind |-> "boolean", b |-> b]

Null == [kind |-> "null"]

\* value: string
PadValues == {"", "x", " y", "Hello world"}

\* padding: any
Paddings ==
    {Fin(n) : n \in -MaxPad..MaxPad} \cup {NaN, PosInf, NegInf} \cup
    {Str(s) : s \in {"", "-", "  ", "ab"}} \cup
    {Bool(TRUE), UndefinedValue, Null}

\* typeof v
TypeOf(v) ==
    CASE v.kind \in {"fin", "inf", "nan"} -> "number"
      [] v.kind = "string" -> "string"
      [] v.kind = "boolean" -> "boolean"
      [] v.kind = "undefined" -> "undefined"
      [] v.kind = "null" -> "object"
      [] v.kind = "array" -> "object"

\* The outcomes of a call: a returned value or a thrown error
Returns(v) == [returned |-> v]

ThrowsError(name, message) == [thrown |-> name, message |-> message]

\* x + 1 on doubles
PlusOne(x) == IF x.kind = "fin" THEN Fin(x.v + 1) ELSE x

\* Array(len) accepts an integer length in 0 .. 2^32 - 1 (2^32 is 65536 * 65536)
ValidLength(len) == len.kind = "fin" /\ len.v >= 0 /\ len.v \div 65536 < 65536

\* Variant: one separator for each element
RECURSIVE JoinEach(_, _)
JoinEach(len, sep) == IF len <= 0 THEN "" ELSE JoinEach(len - 1, sep) \o sep

\* Array(len).join(sep): len empty strings with sep between them
RECURSIVE Join(_, _)
Join(len, sep) == IF len <= 1 THEN "" ELSE Join(len - 1, sep) \o sep

padLeft(value, padding) ==
    IF TypeOf(padding) = "number"
    THEN LET len == PlusOne(padding)
         IN  IF ValidLength(len)
             THEN Returns(Join(len.v, " ") \o value)
             ELSE ThrowsError("RangeError", "Invalid array length")
    ELSE IF TypeOf(padding) = "string"
    THEN Returns(padding.s \o value)
    ELSE ThrowsError("Error",
                     "Expected string or number, got '" \o TypeOf(padding) \o "'.")

\* One call of padLeft
PadLeft(value, padding) ==
    /\ padded' = [outcome |-> padLeft(value, padding), value |-> value,
                  padding |-> padding]
    /\ UNCHANGED besidesPadLeft

CallPadLeft == \E value \in PadValues, padding \in Paddings : PadLeft(value, padding)

\* padLeft("Hello world", 4)
PadLeftFour == PadLeft("Hello world", Fin(4))

\* padLeft("Hello world", true)
PadLeftTrue == PadLeft("Hello world", Bool(TRUE))

----------------------------------------------------------------------------
(* buildName with a default-initialised parameter (docs) *)

MaxArgs == 3

\* The values passed as arguments
NameValues == {Str("Bob"), Str("Adams"), Str(""), UndefinedValue, Null}

\* The parameter at position i (from 1): undefined when no argument is passed
Param(args, i) == IF i <= Len(args) THEN args[i] ELSE UndefinedValue

\* Variant: the default replaces every falsy value
DefaultWhenFalsy(v, d) == IF Truthy(v) THEN v ELSE Str(d)

\* A parameter with an initialiser: the default replaces undefined
Default(v, d) == IF v.kind = "undefined" THEN Str(d) ELSE v

\* ToString(v) of the operand of a string concatenation
StringOf(v) ==
    CASE v.kind = "string" -> v.s
      [] v.kind = "undefined" -> "undefined"
      [] v.kind = "null" -> "null"

\* function buildName(firstName: string, lastName = "Smith")
buildNameSmith(args) ==
    LET firstName == Param(args, 1)
        lastName == Default(Param(args, 2), "Smith")
    IN  Returns(StringOf(firstName) \o " " \o StringOf(lastName))

\* function buildName(firstName = "Will", lastName: string)
buildNameWill(args) ==
    LET firstName == Default(Param(args, 1), "Will")
        lastName == Param(args, 2)
    IN  Returns(StringOf(firstName) \o " " \o StringOf(lastName))

\* One call of either buildName
BuildName(variant, args) ==
    /\ built' = [outcome |-> IF variant = "Smith" THEN buildNameSmith(args)
                             ELSE buildNameWill(args),
                 args |-> args, variant |-> variant]
    /\ UNCHANGED besidesBuildName

CallBuildNameSmith == \E args \in Arrays(NameValues, MaxArgs) : BuildName("Smith", args)

CallBuildNameWill == \E args \in Arrays(NameValues, MaxArgs) : BuildName("Will", args)

\* buildName("Bob"), buildName("Bob", undefined), buildName("Bob", "Adams")
BuildNameSmithExamples ==
    \E args \in {<<Str("Bob")>>, <<Str("Bob"), UndefinedValue>>,
                 <<Str("Bob"), Str("Adams")>>} : BuildName("Smith", args)

\* buildName("Bob", "Adams"), buildName(undefined, "Adams")
BuildNameWillExamples ==
    \E args \in {<<Str("Bob"), Str("Adams")>>, <<UndefinedValue, Str("Adams")>>} :
        BuildName("Will", args)

----------------------------------------------------------------------------
(* pickCard(x), overloaded on a deck and on a number (docs) *)

CardsPerSuit == 13

MaxDeck == 3

MaxCardNumber == 60

\* Math.random() returns j / RandomSteps for some j in 0 .. RandomSteps - 1
RandomSteps == 8

suits == <<"hearts", "spades", "clubs", "diamonds">>

Card(suit, card) == [suit |-> Str(suit), card |-> card]

ArrayValue(s) == [items |-> s, kind |-> "array"]

myDeck == <<Card("diamonds", 2), Card("spades", 10), Card("hearts", 4)>>

Decks == Arrays({myDeck[i] : i \in 1..Len(myDeck)}, MaxDeck)

\* x % n of JavaScript on integers: the sign of the result is that of x
Rem(x, n) == IF x >= 0 THEN x % n ELSE -((-x) % n)

\* suits[i]: undefined outside the array
SuitAt(i) == IF i + 1 \in DOMAIN suits THEN Str(suits[i + 1]) ELSE UndefinedValue

\* Variant: Math.round in place of Math.floor
RoundScaled(j, len) == (2 * j * len + RandomSteps) \div (2 * RandomSteps)

\* Math.floor(Math.random() * len), Math.random() being j / RandomSteps
FloorScaled(j, len) == (j * len) \div RandomSteps

\* pickCard(x), j / RandomSteps being what Math.random() returns if called
pickCard(x, j) ==
    IF TypeOf(x) = "object"
    THEN IF x.kind = "null"
         THEN ThrowsError("TypeError", "Cannot read properties of null")
         ELSE Returns(FloorScaled(j, Len(x.items)))
    ELSE IF TypeOf(x) = "number"
    THEN Returns([suit |-> SuitAt(x.v \div CardsPerSuit),
                  card |-> Rem(x.v, CardsPerSuit)])
    ELSE Returns(UndefinedValue)

\* One call of pickCard; random is 0 when Math.random is not called
PickCard(x, j) ==
    /\ picked' = [x |-> x, outcome |-> pickCard(x, j), random |-> j]
    /\ UNCHANGED besidesPickCard

PickFromDeck ==
    \E deck \in Decks, j \in 0..(RandomSteps - 1) : PickCard(ArrayValue(deck), j)

PickNumber == \E n \in -MaxCardNumber..MaxCardNumber : PickCard(Fin(n), 0)

PickOther == \E x \in {Null, Str("x"), UndefinedValue} : PickCard(x, 0)

\* myDeck[pickCard(myDeck)]
PickFromMyDeck == \E j \in 0..(RandomSteps - 1) : PickCard(ArrayValue(myDeck), j)

\* pickCard(15)
PickFifteen == PickCard(Fin(15), 0)

----------------------------------------------------------------------------
(* logger(s) with the default branch calling assertNever (docs) *)

MaxCode == 120

\* code: number
Codes == {Fin(n) : n \in (-MaxCode..MaxCode) \cup {404, 500}} \cup {NaN, PosInf, NegInf}

Digit(d) == <<"0", "1", "2", "3", "4", "5", "6", "7", "8", "9">>[d + 1]

\* The decimal digits of an integer
RECURSIVE Decimal(_)
Decimal(n) ==
    IF n < 0 THEN "-" \o Decimal(-n)
    ELSE IF n < 10 THEN Digit(n)
    ELSE Decimal(n \div 10) \o Digit(n % 10)

\* ToString of a number, as in a template literal
StringOfNumber(x) ==
    CASE x.kind = "fin" -> Decimal(x.v)
      [] x.kind = "nan" -> "NaN"
      [] x.kind = "inf" -> IF x.v > 0 THEN "Infinity" ELSE "-Infinity"

Loading == [state |-> "loading"]

Failed(code) == [state |-> "failed", code |-> code]

Success == [state |-> "success"]

FromCache == [state |-> "from_cache"]

\* Variant: the switch without a default branch, falling off the function
fallThrough(x) == Returns(UndefinedValue)

\* throw new Error("Unexpected object: " + x), x an object
assertNever(x) == ThrowsError("Error", "Unexpected object: [object Object]")

logger(s) ==
    CASE s.state = "loading" -> Returns("loading request")
      [] s.state = "failed" -> Returns("failed with code " \o StringOfNumber(s.code))
      [] s.state = "success" -> Returns("got response")
      [] OTHER -> assertNever(s)

\* One call of logger
Logger(s) ==
    /\ logged' = [s |-> s, outcome |-> logger(s)]
    /\ UNCHANGED besidesLogger

LogLoading == Logger(Loading)

LogFailed == \E code \in Codes : Logger(Failed(code))

LogSuccess == Logger(Success)

LogFromCache == Logger(FromCache)

\* A state that the type NetworkState does not list
LogUnlisted == \E state \in {"", "Loading", "cached"} : Logger([state |-> state])

----------------------------------------------------------------------------
(* class Greeter with the static standardGreeting (docs) *)

MaxGreeters == 2

\* The values assigned to Greeter.standardGreeting
StandardGreetings == {"Hello, there", "Hey there!", "Hi"}

\* The values assigned to the field greeting of an instance
Greetings == {Str("world"), Str("")}

\* class Greeter: the static part, and no instance yet. greeted is the last
\* call of greet with the state it ran in
GreeterClass ==
    [standardGreeting |-> "Hello, there", instances |-> <<>>, greeted |-> NoCall]

\* new Greeter(): greeting is not initialised. earlier records that
\* standardGreeting was reassigned after the instance was created, madeWith
\* the value standardGreeting had when it was created
NewInstance(g) ==
    [greeting |-> UndefinedValue, earlier |-> FALSE, madeWith |-> g.standardGreeting]

\* Variant: the instance keeps the standardGreeting it was created with
greetCaptured(g, i) ==
    IF Truthy(g.instances[i].greeting)
    THEN Returns("Hello, " \o g.instances[i].greeting.s)
    ELSE Returns(g.instances[i].madeWith)

\* greet() on instance i
greet(g, i) ==
    IF Truthy(g.instances[i].greeting)
    THEN Returns("Hello, " \o g.instances[i].greeting.s)
    ELSE Returns(g.standardGreeting)

\* new Greeter(), new greeterMaker()
NewGreeter ==
    /\ Len(greeter.instances) < MaxGreeters
    /\ greeter' = [greeter EXCEPT !.instances = Append(@, NewInstance(greeter))]
    /\ UNCHANGED besidesGreeter

\* instance.greeting = v
SetGreeting ==
    /\ \E i \in DOMAIN greeter.instances, v \in Greetings :
           greeter' = [greeter EXCEPT !.instances[i].greeting = v]
    /\ UNCHANGED besidesGreeter

\* greeterMaker.standardGreeting = s
SetStandardGreeting(s) ==
    /\ greeter' = [greeter EXCEPT
                      !.standardGreeting = s,
                      !.instances = [i \in DOMAIN @ |-> [@[i] EXCEPT !.earlier = TRUE]]]
    /\ UNCHANGED besidesGreeter

SetAnyStandardGreeting == \E s \in StandardGreetings : SetStandardGreeting(s)

\* greeterMaker.standardGreeting = "Hey there!"
SetHeyThere == SetStandardGreeting("Hey there!")

\* instance.greet()
Greet ==
    /\ \E i \in DOMAIN greeter.instances :
           greeter' = [greeter EXCEPT
                          !.greeted = [outcome |-> greet(greeter, i),
                                       standardGreeting |-> greeter.standardGreeting,
                                       instance |-> greeter.instances[i]]]
    /\ UNCHANGED besidesGreeter

----------------------------------------------------------------------------
(* simpleState(initial) of generics.ts *)

MaxCells == 2

\* The values kept in a cell: [1, 2, 3], [2, 3], null, 'a'
StateValues ==
    {ArrayValue(<<1, 2, 3>>), ArrayValue(<<2, 3>>), Null, Str("a")}

\* Variant: val is one binding shared by all calls of simpleState
SharedCell(i) == 1

\* let val: each call of simpleState has its own binding
CellOf(i) == i

\* Variant: the setter assigns a binding of its own
WrittenShadowed(old, v) == old

\* val = v
Written(old, v) == v

\* What the getter of each pair returns: () => val
Reads(c) == [i \in 1..c.count |-> c.vals[CellOf(i)]]

\* No call of simpleState yet. expected is the history of each pair: the
\* argument of its last set, or its initial value; last is the last call,
\* before and after what the getters return before and after it
NoCells ==
    [before |-> <<>>, count |-> 0,
     vals |-> [i \in 1..MaxCells |-> UndefinedValue], expected |-> <<>>, last |-> NoCall, after |-> <<>>]

\* The cells after a call op on pair i that leaves them as next
Called(op, i, value, next) ==
    [next EXCEPT !.last = [value |-> value, op |-> op, cell |-> i],
                 !.before = Reads(cells),
                 !.after = Reads(next)]

\* simpleState(initial)
SimpleState(initial) ==
    /\ cells.count < MaxCells
    /\ LET i == cells.count + 1
       IN  cells' = Called("simpleState", i, initial,
                           [cells EXCEPT !.count = i,
                                         !.vals[CellOf(i)] = initial,
                                         !.expected = Append(@, initial)])
    /\ UNCHANGED besidesSimpleState

SimpleStateAny == \E initial \in StateValues : SimpleState(initial)

\* simpleState([1, 2, 3])
SimpleStateArray == SimpleState(ArrayValue(<<1, 2, 3>>))

\* simpleState<string | number | null>(null)
SimpleStateNull == SimpleState(Null)

\* The getter of pair i: () => val
Getter ==
    /\ \E i \in 1..cells.count :
           cells' = Called("get", i, cells.vals[CellOf(i)], cells)
    /\ UNCHANGED besidesSimpleState

\* The setter of pair i: (v) => { val = v }
Setter ==
    /\ \E i \in 1..cells.count, v \in StateValues :
           cells' = Called("set", i, v,
                           [cells EXCEPT
                               !.vals[CellOf(i)] = Written(@, v),
                               !.expected[i] = v])
    /\ UNCHANGED besidesSimpleState

----------------------------------------------------------------------------
(* abstract class StreetFighter and its subclasses Ryu and ChunLi *)

MaxLog == 4

Fighters == {"Ryu", "ChunLi"}

\* The methods and accessors each class declares with a body
OwnMethods(class) ==
    CASE class = "StreetFighter" -> {"move", "fight"}
      [] class = "Ryu" -> {"getSpecialAttack", "name", "fight"}
      [] class = "ChunLi" -> {"getSpecialAttack", "name"}

\* Variant: the method of the base class, whatever the object
ResolveInBase(class, method) == "StreetFighter"

\* The class whose method runs for an object of the given class
Resolve(class, method) ==
    IF method \in OwnMethods(class) THEN class ELSE "StreetFighter"

\* getSpecialAttack()
getSpecialAttack(class) == IF class = "Ryu" THEN "Hadoken" ELSE "Lightning Kick"

\* get name()
name(class) == IF class = "Ryu" THEN "Ryu" ELSE "Chun-Li"

\* fight() on an object of the given class: the lines it logs and the
\* members of the object it invokes, in order
fight(class) ==
    IF Resolve(class, "fight") = "Ryu"
    THEN [logged |-> <<"Attack 1000 damage">>, invoked |-> <<>>]
    ELSE [logged |-> <<name(class) \o " attacks with " \o getSpecialAttack(class)>>,
          invoked |-> <<"name", "getSpecialAttack">>]

\* move()
move(class) == [logged |-> <<"Moving">>, invoked |-> <<>>]

\* The console is empty and nothing has been called
EmptyArena == [last |-> NoCall, log |-> <<>>]

\* One call of a method on an object of the given class
Invoked(class, method, ran) ==
    /\ Len(arena.log) < MaxLog
    /\ arena' = [last |-> [logged |-> ran.logged, before |-> arena.log, class |-> class,
                           method |-> method, invoked |-> ran.invoked],
                 log |-> arena.log \o ran.logged]
    /\ UNCHANGED besidesFighters

\* ryu.fight()
RyuFight == Invoked("Ryu", "fight", fight("Ryu"))

\* chunLi.fight()
ChunLiFight == Invoked("ChunLi", "fight", fight("ChunLi"))

Move == \E class \in Fighters : Invoked(class, "move", move(class))

Init ==
    /\ engine \in Engines
    /\ pc = "idle"
    /\ heap = <<>>
    /\ items = NoRef
    /\ rank = <<>>
    /\ k = 0
    /\ ranks = <<>>
    /\ result = NoRef
    /\ error = NoError
    /\ calls = <<>>
    /\ items0 = <<>>
    /\ seen = NoCall
    /\ frames = [i \in Frames |-> IdleFrame]
    /\ store = [i \in Frames |-> <<>>]
    /\ plucked = NoPluck
    /\ employee = NewEmployee
    /\ padded = NoCall
    /\ built = NoCall
    /\ picked = NoCall
    /\ logged = NoCall
    /\ greeter = GreeterClass
    /\ cells = NoCells
    /\ arena = EmptyArena

Next == Call \/ CallPokemon \/ CallHuman \/ Decorate \/ Sort \/ Undecorate \/ Reset

Spec == Init /\ [][Next]_vars

NextTied == CallTied \/ Decorate \/ Sort \/ Undecorate \/ Reset

SpecTied == Init /\ [][NextTied]_vars

NextAlias ==
    CallFinite \/ Decorate \/ Sort \/ Undecorate \/ MutateResult \/ MutateInput \/ Reset

SpecAlias == Init /\ [][NextAlias]_vars

NextAgain == CallAgain \/ Decorate \/ Sort \/ Undecorate \/ Remember

SpecAgain == Init /\ [][NextAgain]_vars

\* One call of ranker, run by an engine that executes the synchronous call
\* step after step: whenever a step of ranker is possible it is taken
NextLive == CallTotal \/ Decorate \/ Sort \/ Undecorate

SpecLive ==
    /\ Init
    /\ [][NextLive]_vars
    /\ WF_vars(Decorate)
    /\ WF_vars(Sort)
    /\ WF_vars(Undecorate)

NextOverlap == StartAny \/ DecorateAny \/ SortAny \/ ReturnAny

SpecOverlap == Init /\ [][NextOverlap]_vars

NextPluck == CallPluck \/ PluckDogsTitle \/ PluckDogsName \/ PluckCatColor

SpecPluck == Init /\ [][NextPluck]_vars

NextEmployee == AssignAny \/ AssignBobSmith

SpecEmployee == Init /\ [][NextEmployee]_vars

NextPadLeft == CallPadLeft \/ PadLeftFour \/ PadLeftTrue

SpecPadLeft == Init /\ [][NextPadLeft]_vars

NextBuildName ==
    CallBuildNameSmith \/ CallBuildNameWill \/ BuildNameSmithExamples \/ BuildNameWillExamples

SpecBuildName == Init /\ [][NextBuildName]_vars

NextPickCard == PickFromDeck \/ PickNumber \/ PickOther \/ PickFromMyDeck \/ PickFifteen

SpecPickCard == Init /\ [][NextPickCard]_vars

NextLogger == LogLoading \/ LogFailed \/ LogSuccess \/ LogFromCache \/ LogUnlisted

SpecLogger == Init /\ [][NextLogger]_vars

NextGreeter == NewGreeter \/ SetGreeting \/ SetAnyStandardGreeting \/ SetHeyThere \/ Greet

SpecGreeter == Init /\ [][NextGreeter]_vars

NextSimpleState ==
    SimpleStateAny \/ SimpleStateArray \/ SimpleStateNull \/ Getter \/ Setter

SpecSimpleState == Init /\ [][NextSimpleState]_vars

NextFighters == RyuFight \/ ChunLiFight \/ Move

SpecFighters == Init /\ [][NextFighters]_vars

----------------------------------------------------------------------------
(* Properties of ranker *)

Input == heap[items]

Output == heap[result]

Count(x, s) == Cardinality({i \in DOMAIN s : s[i] = x})

Range(s) == {s[i] : i \in DOMAIN s}

\* The ranks of the elements of s, in order
RanksOf(s) == [i \in DOMAIN s |-> rank[s[i]]]

\* The elements of s whose rank equals r, in order
WithRank(s, r) == SelectSeq(s, LAMBDA x : NumEq(rank[x], r))

Ascending(s) == \A i, j \in DOMAIN s : i < j => NumLeq(rank[s[i]], rank[s[j]])

SomeRank(s, r) == \E i \in DOMAIN s : rank[s[i]] = r

\* C1: the array ranker returns has the length of the input and holds each
\* element exactly as often as the input does, whatever rank returned,
\* NaN included
C1_Permutation ==
    pc = "returned" =>
        /\ Len(Output) = Len(items0)
        /\ \A x \in Range(items0) \cup Range(Output) :
               Count(x, Output) = Count(x, items0)

C1_Witness ==
    /\ pc = "returned"
    /\ Len(items0) = MaxLen
    /\ Output # items0
    /\ SomeRank(items0, NaN)

\* C2: when no rank is NaN the returned array is in ascending rank order:
\* rank(result[i]) <= rank(result[j]) for i < j; the pokemon list comes back
\* as Megaasaur, Bulbasaur and ranks 3, 1, 2 come back as 1, 2, 3
C2_Ordered ==
    pc = "returned" =>
        /\ ~SomeRank(items0, NaN) => Ascending(Output)
        /\ (items0 = pokemon /\ rank = RankByHp) => Output = <<"Megaasaur", "Bulbasaur">>
        /\ RanksOf(items0) = <<Fin(3), Fin(1), Fin(2)>>
               => RanksOf(Output) = <<Fin(1), Fin(2), Fin(3)>>

C2_Witness ==
    /\ pc = "returned"
    /\ RanksOf(items0) = <<PosInf, Fin(1), NegInf>>
    /\ RanksOf(Output) = <<NegInf, Fin(1), PosInf>>

\* The items of one rank come back in the order they had in the input
Stable ==
    \A r \in Range(RanksOf(items0)) : WithRank(Output, r) = WithRank(items0, r)

\* C3 as stated: ranker is stable, whatever rank returns: two items of equal
\* rank come back in the order they had in the input
C3_Stable == pc = "returned" => Stable

\* C3: ranker is stable when rank returns NaN for no item: two items of
\* equal rank come back in the order they had in the input
C3_StableWithoutNaN == (pc = "returned" /\ ~SomeRank(items0, NaN)) => Stable

C3_Witness ==
    /\ pc = "returned"
    /\ items0 = <<"c", "a", "c", "b", "a">>
    /\ ~SomeRank(items0, NaN)
    /\ Output = <<"a", "b", "a", "c", "c">>

\* C4: from the call until ranker has returned or thrown, and after, the
\* input array holds the elements it held when ranker was called
C4_InputUnchanged == pc # "idle" => Input = items0

C4_Witness ==
    /\ pc = "returned"
    /\ Input = items0
    /\ Output # items0

\* C5: rank is never invoked more often on an item than the item occurs in
\* the input, and once the decoration is complete it has been invoked once
\* per input element
C5_OncePerItem ==
    /\ pc # "idle" =>
           /\ Len(calls) <= Len(items0)
           /\ \A x \in Range(calls) : Count(x, calls) <= Count(x, items0)
    /\ pc \in {"undecorate", "returned"} =>
           /\ Len(calls) = Len(items0)
           /\ \A x \in Range(items0) : Count(x, calls) = Count(x, items0)

C5_Witness ==
    /\ pc = "returned"
    /\ Len(items0) = MaxLen
    /\ Output # items0
    /\ calls = items0

\* The index (from 1) of the first element of s for which rank throws
FirstThrow(s) ==
    CHOOSE i \in DOMAIN s :
        /\ rank[s[i]] = Throws
        /\ \A j \in 1..(i - 1) : rank[s[j]] # Throws

\* C6: when rank throws, that exception leaves ranker at once: rank was
\* invoked on the elements up to the throwing one and on no later one, no
\* array is returned or allocated, the input is unchanged; and ranker
\* returns only when rank threw for no element
C6_FailFast ==
    /\ pc = "thrown" =>
           /\ SomeRank(items0, Throws)
           /\ error = ErrorOf(items0[FirstThrow(items0)])
           /\ calls = SubSeq(items0, 1, FirstThrow(items0))
           /\ result = NoRef
           /\ heap = <<items0>>
    /\ pc \in {"undecorate", "returned"} => ~SomeRank(items0, Throws)
    /\ pc # "thrown" => error = NoError

C6_Witness ==
    /\ pc = "thrown"
    /\ Len(items0) = MaxLen
    /\ FirstThrow(items0) = 2
    /\ rank[items0[3]] # Throws
    /\ calls = SubSeq(items0, 1, 2)

\* C7: on the empty array ranker returns an empty array and never invokes
\* rank, whatever rank is
C7_Empty ==
    (pc # "idle" /\ items0 = <<>>) =>
        /\ pc # "thrown"
        /\ calls = <<>>
        /\ pc = "returned" => Output = <<>>

C7_Witness ==
    /\ pc = "returned"
    /\ items0 = <<>>
    /\ Output = <<>>
    /\ \E x \in DOMAIN rank : rank[x] = Throws

\* C8: an input already in ascending rank order comes back element for
\* element; the humans list (ages 25, 50) comes back unchanged
C8_SortedUnchanged ==
    pc = "returned" =>
        /\ Ascending(items0) => Output = items0
        /\ (items0 = human /\ rank = RankByAge) => Output = human

C8_Witness ==
    /\ pc = "returned"
    /\ RanksOf(items0) = <<Fin(1), Fin(1), PosInf>>
    /\ Cardinality(Range(items0)) = 3
    /\ Output = items0

\* C9: the array ranker returns is never the input array, also for an
\* empty, a one-element and an already ordered input: when the caller then
\* changes the result the input keeps its elements, and when the caller
\* changes the input the result keeps the elements that were returned
C9_NewArray ==
    /\ pc \in {"returned", "mutatedResult", "mutatedInput"} => result # items
    /\ pc = "mutatedResult" => Input = items0
    /\ pc = "mutatedInput" => Output = Undecorated(ranks)

C9_Witness ==
    /\ pc = "mutatedResult"
    /\ Ascending(items0)
    /\ Len(items0) = 1
    /\ Output # items0
    /\ Input = items0

\* C10: whatever calls were made before or in between, a call with the
\* array contents and the rank function of an earlier call that returned
\* returns an array with the same elements at the same positions
C10_Deterministic ==
    (pc = "returned" /\ seen # NoCall /\ seen[1] = items0 /\ seen[2] = rank)
        => Output = seen[3]

C10_Witness ==
    /\ pc = "returned"
    /\ seen # NoCall
    /\ seen[1] = items0
    /\ seen[2] = rank
    /\ Len(items0) = PairLen
    /\ Output # items0
    /\ Output = seen[3]

\* C11: when two calls of ranker overlap in any way, each returns the array
\* it returns when it runs alone
C11_Independent ==
    \A i \in Frames :
        frames[i].pc = "returned" =>
            frames[i].out = Ranker(engine, frames[i].items, frames[i].rank)

C11_Witness ==
    /\ frames[1].pc = "returned"
    /\ frames[2].pc = "returned"
    /\ frames[2].startedIn = "decorate"
    /\ Len(frames[1].items) = PairLen
    /\ Len(frames[2].items) = PairLen
    /\ frames[1].out # frames[1].items
    /\ frames[2].out # frames[2].items
    /\ frames[1].out # frames[2].out

\* C12: a call of ranker whose rank function returns for each item of the
\* array eventually returns an array
C12_Terminates ==
    (pc = "decorate" /\ \A i \in DOMAIN items0 : rank[items0[i]] # Throws)
        ~> (pc = "returned" /\ result # NoRef)

C12_Witness ==
    /\ pc = "returned"
    /\ result # NoRef
    /\ Len(items0) = LiveLen
    /\ SomeRank(items0, PosInf)
    /\ Output # items0

\* C13: a rank of NaN is no error: a call in which rank returns NaN for
\* some items and throws for none throws nothing, and the array it returns
\* holds every item, the NaN-ranked ones included, as often as the input
C13_NaNIsNoError ==
    (pc # "idle" /\ SomeRank(items0, NaN) /\ ~SomeRank(items0, Throws)) =>
        /\ pc # "thrown"
        /\ error = NoError
        /\ pc = "returned" =>
               /\ Len(Output) = Len(items0)
               /\ \A x \in Range(items0) \cup Range(Output) :
                      Count(x, Output) = Count(x, items0)

C13_Witness ==
    /\ pc = "returned"
    /\ Len(items0) = TiedLen
    /\ Count("n", items0) = 2
    /\ Count("n", Output) = 2
    /\ Cardinality(Range(items0)) = 4
    /\ Output # items0

\* The items of s whose rank is not NaN, in order
WithoutNaN(s) == SelectSeq(s, LAMBDA x : ~IsNaN(rank[x]))

\* C14: when rank returns NaN for some items, the items whose rank is not
\* NaN still come back in ascending rank order relative to one another
C14_NonNaNOrdered ==
    (pc = "returned" /\ SomeRank(items0, NaN)) => Ascending(WithoutNaN(Output))

\* C15: pluck(items, key) returns an array as long as items whose i-th
\* element is items[i][key], in input order; pluck(dogs, 'name') is
\* ['Mimi', 'LG']
C15_Pluck ==
    plucked.pc = "returned" =>
        /\ Len(plucked.out) = Len(plucked.items0)
        /\ \A i \in 1..Len(plucked.items0) :
               plucked.out[i] = IF plucked.key \in DOMAIN plucked.items0[i]
                                THEN plucked.items0[i][plucked.key]
                                ELSE UndefinedValue
        /\ (plucked.items0 = dogs /\ plucked.key = "name") =>
               plucked.out = <<Str("Mimi"), Str("LG")>>

C15_Witness ==
    /\ plucked.pc = "returned"
    /\ Len(plucked.items0) = MaxPluckLen
    /\ plucked.key = "name"
    /\ SubSeq(plucked.items0, 1, 2) = dogs
    /\ SubSeq(plucked.out, 1, 2) = <<Str("Mimi"), Str("LG")>>

\* C16: assigning fullName a string longer than fullNameMaxLength throws and
\* leaves the stored name unchanged, any other assignment stores the new
\* name; so the value read from fullName is never a string longer than
\* fullNameMaxLength
C16_MaxLength ==
    /\ employee.assigned # NoAssignment =>
           IF Len(employee.assigned.s) > fullNameMaxLength
           THEN employee.thrown /\ GetFullName(employee) = employee.before
           ELSE ~employee.thrown /\ GetFullName(employee) = employee.assigned
    /\ GetFullName(employee).kind = "string" =>
           Len(GetFullName(employee).s) <= fullNameMaxLength

C16_Witness ==
    /\ employee.thrown
    /\ Len(employee.assigned.s) = fullNameMaxLength + 1
    /\ GetFullName(employee).kind = "string"
    /\ Len(GetFullName(employee).s) = fullNameMaxLength

\* padding is a number of spaces: a non-negative integer
IsCount(padding) == padding.kind = "fin" /\ padding.v >= 0

\* padLeft returned value prefixed by padding spaces, padding a count
PrefixedBySpaces ==
    /\ IsCount(padded.padding)
    /\ padded.outcome = Returns(Repeat(" ", padded.padding.v) \o padded.value)

\* padLeft answered a padding that is no number as documented
StringOrError ==
    /\ TypeOf(padded.padding) = "string" =>
           padded.outcome = Returns(padded.padding.s \o padded.value)
    /\ TypeOf(padded.padding) \notin {"number", "string"} =>
           /\ DOMAIN padded.outcome = {"thrown", "message"}
           /\ padded.outcome.thrown = "Error"
    /\ (padded.value = "Hello world" /\ padded.padding = Fin(4)) =>
           padded.outcome = Returns("    Hello world")

Passed(args, i) == i <= Len(args) /\ args[i] # UndefinedValue

\* The name that a call of buildName is to return when the parameter at
\* position i has the default d
NameWithDefault(args, i, d) ==
    LET part(j) == IF j = i /\ ~Passed(args, j) THEN d ELSE StringOf(Param(args, j))
    IN  Returns(part(1) \o " " \o part(2))

\* C18: the default of a default-initialised parameter of buildName is used
\* exactly when the argument is omitted or passed as undefined, as in the
\* documented calls returning "Bob Smith", "Bob Adams" and "Will Adams"
C18_Defaults ==
    built # NoCall =>
        /\ built.variant = "Smith" =>
               /\ built.outcome = NameWithDefault(built.args, 2, "Smith")
               /\ built.args \in {<<Str("Bob")>>, <<Str("Bob"), UndefinedValue>>} =>
                      built.outcome = Returns("Bob Smith")
               /\ built.args = <<Str("Bob"), Str("Adams")>> =>
                      built.outcome = Returns("Bob Adams")
        /\ built.variant = "Will" =>
               /\ built.outcome = NameWithDefault(built.args, 1, "Will")
               /\ built.args = <<UndefinedValue, Str("Adams")>> =>
                      built.outcome = Returns("Will Adams")
               /\ built.args = <<Str("Bob"), Str("Adams")>> =>
                      built.outcome = Returns("Bob Adams")

C18_Witness ==
    /\ built # NoCall
    /\ built.variant = "Smith"
    /\ built.args = <<Str("Bob"), UndefinedValue>>
    /\ built.outcome = Returns("Bob Smith")

\* C19: for an integer x with 0 <= x < 52 pickCard returns the card
\* {suit: suits[floor(x / 13)], card: x % 13}, whose suit is one of the four
\* suits and whose card is in 0..12 (pickCard(15) is card 2 of spades); for
\* a non-empty deck it returns an index i with 0 <= i < deck length, so
\* deck[pickCard(deck)] is an element of the deck
C19_PickCard ==
    picked # NoCall =>
        /\ (picked.x.kind = "fin" /\ picked.x.v \in 0..51) =>
               /\ picked.outcome =
                      Returns([suit |-> Str(suits[(picked.x.v \div 13) + 1]),
                               card |-> picked.x.v % 13])
               /\ picked.outcome.returned.suit \in
                      {Str("hearts"), Str("spades"), Str("clubs"), Str("diamonds")}
               /\ picked.outcome.returned.card \in 0..12
        /\ picked.x = Fin(15) => picked.outcome = Returns(Card("spades", 2))
        /\ (picked.x.kind = "array" /\ picked.x.items # <<>>) =>
               /\ DOMAIN picked.outcome = {"returned"}
               /\ picked.outcome.returned \in 0..(Len(picked.x.items) - 1)
               /\ \E i \in DOMAIN picked.x.items :
                      Get(picked.x.items, picked.outcome.returned) = picked.x.items[i]

C19_Witness ==
    /\ picked # NoCall
    /\ picked.x = ArrayValue(myDeck)
    /\ picked.random = RandomSteps - 1
    /\ picked.outcome = Returns(Len(myDeck) - 1)

\* C20: logger returns "loading request", "failed with code <code>" and
\* "got response" for the states loading, failed and success, and for every
\* other state (e.g. from_cache) it throws an Error and returns nothing
C20_Logger ==
    logged # NoCall =>
        /\ logged.s.state = "loading" => logged.outcome = Returns("loading request")
        /\ logged.s.state = "failed" =>
               /\ DOMAIN logged.outcome = {"returned"}
               /\ logged.s.code.kind = "fin" =>
                      logged.outcome.returned = "failed with code " \o Decimal(logged.s.code.v)
               /\ logged.s.code = Fin(404) =>
                      logged.outcome.returned = "failed with code 404"
               /\ logged.s.code = Fin(-7) =>
                      logged.outcome.returned = "failed with code -7"
        /\ logged.s.state = "success" => logged.outcome = Returns("got response")
        /\ logged.s.state \notin {"loading", "failed", "success"} =>
               /\ DOMAIN logged.outcome = {"thrown", "message"}
               /\ logged.outcome.thrown = "Error"

C20_Witness ==
    /\ logged # NoCall
    /\ logged.s = FromCache
    /\ DOMAIN logged.outcome = {"thrown", "message"}
    /\ logged.outcome.thrown = "Error"

\* greet() returned the current standardGreeting for an instance whose
\* greeting is not set, also for an instance created before a reassignment
StandardWhenUnset ==
    greeter.greeted.instance.greeting = UndefinedValue =>
        /\ greeter.greeted.outcome = Returns(greeter.greeted.standardGreeting)
        /\ greeter.greeted.standardGreeting = "Hey there!" =>
               greeter.greeted.outcome = Returns("Hey there!")

\* C21: greet() returns "Hello, " + greeting when the instance's greeting is
\* set and otherwise the current value of Greeter.standardGreeting, also on
\* instances created before standardGreeting was reassigned ("Hey there!")
C21_Greet ==
    greeter.greeted # NoCall =>
        /\ greeter.greeted.instance.greeting # UndefinedValue =>
               greeter.greeted.outcome =
                   Returns("Hello, " \o greeter.greeted.instance.greeting.s)
        /\ StandardWhenUnset

\* C21, amended: "Hello, " + greeting when the greeting is a non-empty
\* string; the current standardGreeting when it is unset or empty
C21_GreetNonEmpty ==
    greeter.greeted # NoCall =>
        /\ (/\ greeter.greeted.instance.greeting # UndefinedValue
            /\ greeter.greeted.instance.greeting.s # "") =>
               greeter.greeted.outcome =
                   Returns("Hello, " \o greeter.greeted.instance.greeting.s)
        /\ (/\ greeter.greeted.instance.greeting # UndefinedValue
            /\ greeter.greeted.instance.greeting.s = "") =>
               greeter.greeted.outcome = Returns(greeter.greeted.standardGreeting)
        /\ StandardWhenUnset

C21_Witness ==
    /\ greeter.greeted # NoCall
    /\ greeter.greeted.instance.greeting = UndefinedValue
    /\ greeter.greeted.instance.earlier
    /\ greeter.greeted.instance.madeWith = "Hello, there"
    /\ greeter.greeted.outcome = Returns("Hey there!")
    /\ \E i \in DOMAIN greeter.instances : greeter.instances[i].greeting = Str("world")

\* C22: get() returns the argument of the most recent set call of its pair,
\* or initial if set was never called, and get changes no stored value
C22_GetLastSet ==
    (cells.last # NoCall /\ cells.last.op = "get") =>
        /\ cells.last.value = cells.expected[cells.last.cell]
        /\ cells.after = cells.before

C22_Witness ==
    /\ cells.last # NoCall
    /\ cells.last.op = "get"
    /\ cells.count = MaxCells
    /\ cells.last.cell = 1
    /\ cells.last.value = ArrayValue(<<2, 3>>)
    /\ cells.expected[MaxCells] = Str("a")

\* C23: the setter of one pair, and the creation of a new pair, never
\* change what the getter of another pair returns
C23_IndependentCells ==
    (cells.last # NoCall /\ cells.last.op \in {"set", "simpleState"}) =>
        \A j \in DOMAIN cells.before :
            j # cells.last.cell => cells.after[j] = cells.before[j]

C23_Witness ==
    /\ cells.last # NoCall
    /\ cells.last.op = "set"
    /\ cells.count = MaxCells
    /\ cells.last.cell = MaxCells
    /\ cells.after[MaxCells] # cells.before[MaxCells]
    /\ cells.after[1] = cells.before[1]
    /\ cells.after[1] # cells.after[MaxCells]

\* C27: fight() on ChunLi logs "Chun-Li attacks with Lightning Kick", built
\* from the name getter and getSpecialAttack(); on Ryu it logs "Attack 1000
\* damage" and invokes neither; each call of fight logs exactly one line
C27_Dispatch ==
    (arena.last # NoCall /\ arena.last.method = "fight") =>
        /\ arena.last.class = "ChunLi" =>
               /\ arena.last.logged = <<"Chun-Li attacks with Lightning Kick">>
               /\ arena.last.invoked = <<"name", "getSpecialAttack">>
        /\ arena.last.class = "Ryu" =>
               /\ arena.last.logged = <<"Attack 1000 damage">>
               /\ arena.last.invoked = <<>>
        /\ Len(arena.log) = Len(arena.last.before) + 1
        /\ arena.log = arena.last.before \o arena.last.logged

C27_Witness ==
    /\ arena.last # NoCall
    /\ arena.last.class = "ChunLi"
    /\ arena.last.method = "fight"
    /\ arena.log = <<"Attack 1000 damage", "Chun-Li attacks with Lightning Kick">>

\* C24: rank is invoked on the items in input order, all invocations are
\* made before the sort and the sort makes none; when rank throws at the
\* item of index k (from 0), it has been invoked k + 1 times, on the items
\* of indexes 0..k
C24_InputOrder ==
    /\ pc # "idle" =>
           /\ Len(calls) <= Len(items0)
           /\ calls = SubSeq(items0, 1, Len(calls))
    /\ pc = "decorate" =>
           /\ Len(calls) = k
           /\ \A i \in DOMAIN ranks : ranks[i].item = items0[i]
    /\ pc \in {"undecorate", "returned"} => calls = items0
    /\ pc = "thrown" =>
           /\ Len(calls) = (FirstThrow(items0) - 1) + 1
           /\ k = FirstThrow(items0)

C24_Witness ==
    /\ pc = "thrown"
    /\ Len(items0) = MaxLen
    /\ FirstThrow(items0) = 2
    /\ calls = <<items0[1], items0[2]>>
    /\ items0[1] # items0[2]
    /\ rank[items0[1]] # rank[items0[MaxLen]]

\* C25: for a rank function without NaN values, ranker applied to the array
\* that ranker returned gives that array again, element for element
C25_Idempotent ==
    (pc = "returned" /\ ~SomeRank(items0, NaN)) =>
        Ranker(engine, Output, rank) = Output

C25_Witness ==
    /\ pc = "returned"
    /\ RanksOf(items0) = <<PosInf, Fin(1), Fin(1)>>
    /\ Cardinality(Range(items0)) = 3
    /\ Output # items0
    /\ Ranker(engine, Output, rank) = Output

\* C26: items ranked -Infinity come before all items of finite rank, items
\* ranked +Infinity after them, and the items that share an infinite rank
\* keep their input order
C26_InfiniteRanks ==
    pc = "returned" =>
        /\ \A i, j \in DOMAIN Output :
               /\ (rank[Output[i]] = NegInf /\ rank[Output[j]].kind = "fin") => i < j
               /\ (rank[Output[i]] = PosInf /\ rank[Output[j]].kind = "fin") => j < i
        /\ WithRank(Output, PosInf) = WithRank(items0, PosInf)
        /\ WithRank(Output, NegInf) = WithRank(items0, NegInf)

\* C28: pluck leaves its input array and the items in it as they were, and
\* an item without the key yields undefined at its position, so the result
\* is as long as the input; pluck(dogs, 'title') is ['sdad', undefined]
C28_PluckKeepsInput ==
    plucked.pc = "returned" =>
        /\ plucked.items = plucked.items0
        /\ Len(plucked.out) = Len(plucked.items0)
        /\ \A i \in DOMAIN plucked.items0 :
               plucked.key \notin DOMAIN plucked.items0[i] =>
                   (i \in DOMAIN plucked.out /\ plucked.out[i] = UndefinedValue)
        /\ (plucked.items0 = dogs /\ plucked.key = "title") =>
               plucked.out = <<Str("sdad"), UndefinedValue>>

C28_Witness ==
    /\ plucked.pc = "returned"
    /\ plucked.items0 = dogs
    /\ plucked.items = dogs
    /\ plucked.key = "title"
    /\ plucked.out = <<Str("sdad"), UndefinedValue>>

====
